---- MODULE Spec2Model ----
(***************************************************************************)
(* Model of the profile-section store of digitalmatchmaking_backend: the   *)
(* matchmakers_data table (model/matchmakers.py), the write gate kept in   *)
(* the database_status row (model/database_audit.py, api/control_panel_api *)
(* .py) and the request handlers of api/matchmaking_api.py, each handler   *)
(* split at its database statements so that concurrent requests interleave *)
(* the way separate sessions do under read-committed isolation.            *)
(***************************************************************************)
EXTENDS Integers, Sequences, FiniteSets, TLC

\* ------------------------------------------------------------------ bounds
MaxRows == 2
MaxLen == 3

Users == {1, 2}
Procs == {"p1", "p2"}

\* JSON documents: objects over a small key set.  A key that is not in the
\* object maps to Absent.
Keys == {"k1", "k2"}
Vals == {"v1", "v2"}
Absent == "absent"
\* POST save stores the quiz answers under the key profile_quiz
DocKeys == Keys \cup {"profile_quiz"}
\* the quiz answers a POST save carries, as opaque JSON values
SaveData == {"quiz1"}
Docs == [DocKeys -> Vals \cup SaveData \cup {Absent}]
EmptyDoc == [k \in DocKeys |-> Absent]

\* body.get(...) of a field the body does not carry
Missing == "missing"

Reasons == {"maintenance", "audit"}

\* current_user.role of the caller of an admin route
Roles == {"Admin", "User"}
\* a user id that User.query.get() does not find
NoSuchUser == 0

\* the largest primary key the table hands out
MaxId == 3

PII_SECTIONS == {"basic", "contact", "preferences", "security", "profile"}
\* section names the modelled requests carry: two valid ones, one invalid
ReqSections == {"profile", "basic", "hobbies"}

VARIABLES
    rows,       \* matchmakers_data: set of [id, user_id, section, data]
    nextId,     \* the table's autoincrement primary key
    status,     \* the database_status row
    pc,         \* per request slot: where its handler stands
    req,        \* per request slot: the request being handled
    loc,        \* per request slot: the handler's local variables
    out,        \* the response the last step returned, if it returned one
    adminPc,    \* control panel handler in progress
    adminArg,   \* its reason argument
    profile_data,    \* the argument of a call of ProfileQuiz.filter_safe_data
    safe_responses,  \* what the call returned
    filterPc,        \* "call" before the call, "done" after it
    file,       \* profile_setups.json: exists, parses as JSON, its list, its size
    flock,      \* holder of the exclusive fcntl lock on it, or "none"
    lpc,        \* per caller of create_profile_setup: where the call stands
    ldata,      \* per caller: the list it is about to write
    lbuf,       \* per caller: the dump is still in the file object's buffer
    lcreated,   \* uids for which create_profile_setup returned a new record
    lout,       \* what the last legacy call returned, if the step returned
    aReq,       \* classification adapter: the request and what upstream does
    aout,       \* the adapter's response
    apc,        \* "call" before the adapter handles the request, "done" after
    quizzes,    \* profile_quizzes: set of [id, user_id, profile_data]
    qpc,        \* per request slot of POST /api/pii/profile: where it stands
    qreq,       \* per request slot: the profile_data it carries
    qout,       \* the response the last quiz step returned, if it returned one
    dsRows,     \* database_status: set of [id, is_paused]
    dsNext,     \* that table's autoincrement primary key
    dsPc,       \* per caller of get_or_create: where its call stands
    dsOp,       \* per caller: what it called get_or_create for
    dsRow,      \* per caller: the id of the row get_or_create returned to it
    twin,       \* a second profile_quizzes table, to compare the views of two stores
    view        \* per store: the GET route that was answered on it and the response

\* the section store and its gate
coreVars == <<rows, nextId, status, pc, req, loc, out, adminPc, adminArg>>
\* the PII safety filter
filterVars == <<profile_data, safe_responses, filterPc>>
\* what an action of the section store leaves alone
\* the legacy file-backed store
legacyVars == <<file, flock, lpc, ldata, lbuf, lcreated, lout>>
\* the classification adapter
adapterVars == <<aReq, aout, apc>>
\* the PII quiz table
quizVars == <<quizzes, qpc, qreq, qout>>
\* the rows of the database_status table
statusVars == <<dsRows, dsNext, dsPc, dsOp, dsRow>>
\* the public quiz views of two stores
viewVars == <<twin, view>>
otherVars == <<filterVars, legacyVars, adapterVars, quizVars, statusVars, viewVars>>
\* what an action of each other part leaves alone
notFilter == <<coreVars, legacyVars, adapterVars, quizVars, statusVars, viewVars>>
notLegacy == <<coreVars, filterVars, adapterVars, quizVars, statusVars, viewVars>>
notAdapter == <<coreVars, filterVars, legacyVars, quizVars, statusVars, viewVars>>
notQuiz == <<coreVars, filterVars, legacyVars, adapterVars, statusVars, viewVars>>
notStatus == <<coreVars, filterVars, legacyVars, adapterVars, quizVars, viewVars>>
notView == <<coreVars, filterVars, legacyVars, adapterVars, quizVars, statusVars>>

vars == <<twin, view, dsRows, dsNext, dsPc, dsOp, dsRow, aReq, aout, apc, quizzes, qpc, qreq, qout, file, flock, lpc, ldata, lbuf, lcreated, lout, rows, nextId, status, pc, req, loc, out, adminPc, adminArg,
          profile_data, safe_responses, filterPc>>

\* ------------------------------------------------------------ requests
NoReq == [op |-> "none", user |-> 0, section |-> "-", key |-> "-", val |-> "-",
          data |-> EmptyDoc, hasData |-> FALSE]

WriteReq(u, s, d, has) ==
    [op |-> "write", user |-> u, section |-> s, key |-> "-", val |-> "-",
     data |-> d, hasData |-> has]
SetupReq(u) ==
    [op |-> "setup", user |-> u, section |-> "-", key |-> "-", val |-> "-",
     data |-> EmptyDoc, hasData |-> FALSE]
AddReq(u, k, v) ==
    [op |-> "add", user |-> u, section |-> "-", key |-> k, val |-> v,
     data |-> EmptyDoc, hasData |-> FALSE]
DelReq(u, k) ==
    [op |-> "del", user |-> u, section |-> "-", key |-> k, val |-> "-",
     data |-> EmptyDoc, hasData |-> FALSE]

\* the documents a full write carries
WriteDocs == {EmptyDoc, [EmptyDoc EXCEPT !["k1"] = "v1"]}

\* well-formed requests, and one request for each way a body can lack a field
Requests ==
    {WriteReq(u, s, d, TRUE) : u \in Users, s \in ReqSections, d \in WriteDocs}
    \cup {WriteReq(1, Missing, EmptyDoc, TRUE), WriteReq(1, "profile", EmptyDoc, FALSE)}
    \cup {SetupReq(u) : u \in Users}
    \cup {AddReq(u, k, v) : u \in Users, k \in Keys, v \in Vals}
    \cup {AddReq(1, Missing, "v1"), AddReq(1, "k1", Missing)}
    \cup {DelReq(u, k) : u \in Users, k \in Keys}
    \cup {DelReq(1, Missing)}

\* ----------------------------------------------------------- responses
Resp(code, msg, doc, val) == [status |-> code, msg |-> msg, doc |-> doc, val |-> val]
NoResp == Resp(0, "-", EmptyDoc, "-")
\* a response together with the request it answers
Answer(r, rsp) == [req |-> r, resp |-> rsp]
NoOut == Answer(NoReq, NoResp)

NoLoc == [rid |-> 0, snap |-> EmptyDoc]

\* ------------------------------------------------- model/matchmakers.py
\* MatchmakersData.query.filter_by(user_id=..., section=...).all()
get_user_matchmakers_data(user_id, section) ==
    {r \in rows : r.user_id = user_id /\ (section = Missing \/ r.section = section)}

\* existing_records[0]: the table is scanned in primary-key order
First(rs) == CHOOSE r \in rs : \A o \in rs : r.id <= o.id

RowById(id) == CHOOSE r \in rows : r.id = id

\* @validates('section')
validate_section(value) == value \in PII_SECTIONS

\* MatchmakersData(user, section, data).create(): INSERT and commit.  The
\* table declares no unique constraint, so the INSERT never conflicts.
create(user_id, section, data) ==
    /\ rows' = rows \cup {[id |-> nextId, user_id |-> user_id, section |-> section, data |-> data]}
    /\ nextId' = nextId + 1

\* an update that would drop a record whose document becomes empty
UpdateDroppingEmpty(id, data) ==
    /\ rows' = (IF data = EmptyDoc
                THEN {r \in rows : r.id # id}
                ELSE {IF r.id = id THEN [r EXCEPT !.data = data] ELSE r : r \in rows})
    /\ UNCHANGED nextId

\* record.update(data): UPDATE ... SET data = :data WHERE id = :id, commit
update(id, data) ==
    /\ rows' = {IF r.id = id THEN [r EXCEPT !.data = data] ELSE r : r \in rows}
    /\ UNCHANGED nextId

\* The table holds at most MaxRows rows: an insert is begun only when there
\* is room for it and for the inserts already under way.
RoomForInsert ==
    Cardinality(rows) + Cardinality({q \in Procs : pc[q] = "create"}) < MaxRows

\* The admin route /matchmakers/create: create_matchmaker_record
AdminCreateReq(u, s, d, has) ==
    [op |-> "admin_create", user |-> u, section |-> s, key |-> "-", val |-> "-",
     data |-> d, hasData |-> has]

AdminCreate(role, user_id, section, data, has) ==
    LET r == AdminCreateReq(user_id, section, data, has)
        Reply(rsp) == /\ out' = Answer(r, rsp)
                      /\ UNCHANGED <<rows, nextId>> IN
    /\ IF role # "Admin" THEN Reply(Resp(403, "Unauthorized", EmptyDoc, "-"))
       ELSE IF section = Missing \/ ~has THEN Reply(Resp(400, "Missing required fields", EmptyDoc, "-"))
       ELSE IF user_id \notin Users THEN Reply(Resp(404, "User not found", EmptyDoc, "-"))
       ELSE IF ~validate_section(section) THEN Reply(Resp(400, "Invalid PII section", EmptyDoc, "-"))
       ELSE /\ RoomForInsert
            /\ create(user_id, section, data)
            /\ out' = Answer(r, Resp(201, "Record created successfully", data, "-"))
    /\ UNCHANGED <<status, pc, req, loc, adminPc, adminArg>>
    /\ UNCHANGED otherVars

\* The admin route /matchmakers/update/<id>; the field user of the request
\* record carries the id of the URL
AdminUpdateReq(id, d, has) ==
    [op |-> "admin_update", user |-> id, section |-> "-", key |-> "-", val |-> "-",
     data |-> d, hasData |-> has]

\* update_matchmaker_record(id): get_or_404 raises inside the try block, so
\* an unknown id is answered 500
AdminUpdate(role, id, data, has) ==
    LET r == AdminUpdateReq(id, data, has)
        Reply(rsp) == /\ out' = Answer(r, rsp)
                      /\ UNCHANGED <<rows, nextId>> IN
    /\ IF role # "Admin" THEN Reply(Resp(403, "Unauthorized", EmptyDoc, "-"))
       ELSE IF \A x \in rows : x.id # id
       THEN Reply(Resp(500, "Error updating record", EmptyDoc, "-"))
       ELSE IF ~has THEN Reply(Resp(400, "No data provided", EmptyDoc, "-"))
       ELSE /\ update(id, data)
            /\ out' = Answer(r, Resp(200, "Record updated successfully", data, "-"))
    /\ UNCHANGED <<status, pc, req, loc, adminPc, adminArg>>
    /\ UNCHANGED otherVars

\* The admin route /matchmakers/delete/<id>
AdminDeleteReq(id) ==
    [op |-> "admin_delete", user |-> id, section |-> "-", key |-> "-", val |-> "-",
     data |-> EmptyDoc, hasData |-> FALSE]

\* delete_matchmaker_record(id)
AdminDelete(role, id) ==
    LET r == AdminDeleteReq(id)
        Reply(rsp) == /\ out' = Answer(r, rsp)
                      /\ UNCHANGED rows IN
    /\ IF role # "Admin" THEN Reply(Resp(403, "Unauthorized", EmptyDoc, "-"))
       ELSE IF \A x \in rows : x.id # id
       THEN Reply(Resp(500, "Error deleting record", EmptyDoc, "-"))
       ELSE /\ rows' = {x \in rows : x.id # id}
            /\ out' = Answer(r, Resp(200, "Record deleted successfully", EmptyDoc, "-"))
    /\ UNCHANGED <<nextId, status, pc, req, loc, adminPc, adminArg>>
    /\ UNCHANGED otherVars

\* The owning User is deleted: the relationship's cascade="all,
\* delete-orphan" deletes the user's records with it
DeleteUser(u) ==
    /\ rows' = {x \in rows : x.user_id # u}
    /\ out' = NoOut
    /\ UNCHANGED <<nextId, status, pc, req, loc, adminPc, adminArg>>
    /\ UNCHANGED otherVars

\* ----------------------------------------------- api/matchmaking_api.py
\* @matchmakers_write_allowed(): the gate check of a gated handler
\* a gate that would read the global flag instead of the matchmakers flag
GateOnGlobalFlag == ~status.is_paused

matchmakers_write_allowed == ~status.is_matchmakers_paused

GateClosed == Resp(403, status.matchmakers_pause_reason, EmptyDoc, "-")

Finish(p, r, rsp) ==
    /\ out' = Answer(r, rsp)
    /\ pc' = [pc EXCEPT ![p] = "idle"]
    /\ req' = [req EXCEPT ![p] = NoReq]
    /\ loc' = [loc EXCEPT ![p] = NoLoc]

Goto(p, r, label, l) ==
    /\ out' = NoOut
    /\ pc' = [pc EXCEPT ![p] = label]
    /\ req' = [req EXCEPT ![p] = r]
    /\ loc' = [loc EXCEPT ![p] = l]

\* _WRITE.post up to its first commit: validation and the existence query
WriteBegin(p, r) ==
    IF r.section = Missing THEN Finish(p, r, Resp(400, "section field is required", EmptyDoc, "-"))
    ELSE IF ~r.hasData THEN Finish(p, r, Resp(400, "data field is required", EmptyDoc, "-"))
    ELSE LET existing == get_user_matchmakers_data(r.user, r.section) IN
         IF existing # {} THEN Goto(p, r, "update", [rid |-> First(existing).id, snap |-> EmptyDoc])
         ELSE IF ~validate_section(r.section)
              THEN Finish(p, r, Resp(500, "Error writing data", EmptyDoc, "-"))
              ELSE Goto(p, r, "create", NoLoc)

\* _SETUP.post up to its commit
SetupBegin(p, r) ==
    IF get_user_matchmakers_data(r.user, Missing) # {}
    THEN Finish(p, r, Resp(409, "already created", EmptyDoc, "-"))
    ELSE Goto(p, r, "create", NoLoc)

\* _ADD.post up to its first commit
AddBegin(p, r) ==
    IF r.key = Missing THEN Finish(p, r, Resp(400, "index field is required", EmptyDoc, "-"))
    ELSE IF r.val = Missing THEN Finish(p, r, Resp(400, "data field is required", EmptyDoc, "-"))
    ELSE LET profile_records == get_user_matchmakers_data(r.user, "profile") IN
         IF profile_records = {} THEN Goto(p, r, "create", NoLoc)
         ELSE LET profile_record == First(profile_records) IN
              Goto(p, r, "update", [rid |-> profile_record.id, snap |-> profile_record.data])

\* a removal that would not look for the key before writing
DelBeginUnchecked(p, r) ==
    IF r.key = Missing THEN Finish(p, r, Resp(400, "index field is required", EmptyDoc, "-"))
    ELSE LET profile_records == get_user_matchmakers_data(r.user, "profile") IN
         IF profile_records = {} THEN Finish(p, r, Resp(404, "No profile setup found", EmptyDoc, "-"))
         ELSE LET profile_record == First(profile_records) IN
              Goto(p, r, "update", [rid |-> profile_record.id, snap |-> profile_record.data])

\* _ADD.delete up to its commit
DelBegin(p, r) ==
    IF r.key = Missing THEN Finish(p, r, Resp(400, "index field is required", EmptyDoc, "-"))
    ELSE LET profile_records == get_user_matchmakers_data(r.user, "profile") IN
         IF profile_records = {} THEN Finish(p, r, Resp(404, "No profile setup found", EmptyDoc, "-"))
         ELSE LET profile_record == First(profile_records)
                  current_data == profile_record.data IN
              IF current_data[r.key] = Absent
              THEN Finish(p, r, Resp(404, "index not found", current_data, "-"))
              ELSE Goto(p, r, "update", [rid |-> profile_record.id, snap |-> current_data])

Begin(p, r) ==
    CASE r.op = "write" -> WriteBegin(p, r)
      [] r.op = "setup" -> SetupBegin(p, r)
      [] r.op = "add" -> AddBegin(p, r)
      [] r.op = "del" -> DelBegin(p, r)

\* A gated request arrives: the decorator's gate check, then the handler up
\* to its first commit.
Call(p, r) ==
    /\ pc[p] = "idle"
    /\ IF matchmakers_write_allowed THEN Begin(p, r) ELSE Finish(p, r, GateClosed)
    /\ pc'[p] = "create" => RoomForInsert
    /\ UNCHANGED <<rows, nextId, status, adminPc, adminArg>>
    /\ UNCHANGED otherVars

\* The INSERT of a handler that found no record.
Create(p) ==
    /\ pc[p] = "create"
    /\ LET r == req[p] IN
       CASE r.op = "write" ->
              /\ create(r.user, r.section, r.data)
              /\ Finish(p, r, Resp(201, "created", r.data, "-"))
         [] r.op = "setup" ->
              /\ create(r.user, "profile", EmptyDoc)
              /\ Finish(p, r, Resp(201, "initialized", EmptyDoc, "-"))
         [] r.op = "add" ->
              /\ create(r.user, "profile", EmptyDoc)
              /\ Goto(p, r, "refresh", [rid |-> nextId, snap |-> EmptyDoc])
    /\ UNCHANGED <<status, adminPc, adminArg>>
    /\ UNCHANGED otherVars

\* _ADD.post after its INSERT: the commit expired profile_record, so reading
\* profile_record.data loads the row again.
Refresh(p) ==
    /\ pc[p] = "refresh"
    /\ Goto(p, req[p], "update", [rid |-> loc[p].rid, snap |-> RowById(loc[p].rid).data])
    /\ UNCHANGED <<rows, nextId, status, adminPc, adminArg>>
    /\ UNCHANGED otherVars

\* The document a handler hands to record.update()
\* an upsert that would replace the document by the single new field
NewDataReplacing(r, l) ==
    CASE r.op = "write" -> r.data
      [] r.op = "add" -> [EmptyDoc EXCEPT ![r.key] = r.val]
      [] r.op = "del" -> [l.snap EXCEPT ![r.key] = Absent]

\* a removal that would empty the document
NewDataClearing(r, l) ==
    CASE r.op = "write" -> r.data
      [] r.op = "add" -> [l.snap EXCEPT ![r.key] = r.val]
      [] r.op = "del" -> EmptyDoc

NewData(r, l) ==
    CASE r.op = "write" -> r.data
      [] r.op = "add" -> [l.snap EXCEPT ![r.key] = r.val]
      [] r.op = "del" -> [l.snap EXCEPT ![r.key] = Absent]

\* record.update(...) and the handler's response
Update(p) ==
    /\ pc[p] = "update"
    /\ LET r == req[p]
           l == loc[p]
           d == NewData(r, l) IN
       /\ update(l.rid, d)
       /\ CASE r.op = "write" -> Finish(p, r, Resp(201, "updated", d, "-"))
            [] r.op = "add" -> Finish(p, r, Resp(201, "added", EmptyDoc, r.val))
            [] r.op = "del" -> Finish(p, r, Resp(200, "deleted", d, l.snap[r.key]))
    /\ UNCHANGED <<status, adminPc, adminArg>>
    /\ UNCHANGED otherVars

\* POST /save: _SAVE_PROFILE_JSON.post
SaveReq(u, pd) ==
    [op |-> "save", user |-> u, section |-> "-", key |-> "profile_quiz", val |-> pd,
     data |-> EmptyDoc, hasData |-> FALSE]

\* _SAVE_PROFILE_JSON.post: only @token_required() decorates it
SaveProfile(u, profile_data_in) ==
    LET r == SaveReq(u, profile_data_in) IN
    /\ IF profile_data_in = Missing
       THEN /\ out' = Answer(r, Resp(400, "No profile_data provided", EmptyDoc, "-"))
            /\ UNCHANGED <<rows, nextId>>
       ELSE LET profile_records == get_user_matchmakers_data(u, "profile") IN
            IF profile_records = {}
            THEN LET new_data == [EmptyDoc EXCEPT !["profile_quiz"] = profile_data_in] IN
                 /\ RoomForInsert
                 /\ create(u, "profile", new_data)
                 /\ out' = Answer(r, Resp(201, "Profile data saved", new_data, "-"))
            ELSE LET profile_record == First(profile_records)
                     current_data == [profile_record.data EXCEPT
                                         !["profile_quiz"] = profile_data_in] IN
                 /\ update(profile_record.id, current_data)
                 /\ out' = Answer(r, Resp(201, "Profile data saved", current_data, "-"))
    /\ UNCHANGED <<status, pc, req, loc, adminPc, adminArg>>
    /\ UNCHANGED otherVars

\* --------------------------------------------- model/database_audit.py
\* a pause that would lift a pause already in force
PauseIncomingToggling(reason) ==
    status' = [status EXCEPT !.is_paused = ~status.is_paused, !.pause_reason = reason]

\* DatabaseStatus.pause_incoming_data(reason)
pause_incoming_data(reason) ==
    status' = [status EXCEPT !.is_paused = TRUE, !.pause_reason = reason]

\* DatabaseStatus.resume_incoming_data()
resume_incoming_data ==
    status' = [status EXCEPT !.is_paused = FALSE, !.pause_reason = "None"]

\* DatabaseStatus.pause_matchmakers_data(reason)
pause_matchmakers_data(reason) ==
    status' = [status EXCEPT !.is_matchmakers_paused = TRUE, !.matchmakers_pause_reason = reason]

\* DatabaseStatus.resume_matchmakers_data()
resume_matchmakers_data ==
    status' = [status EXCEPT !.is_matchmakers_paused = FALSE, !.matchmakers_pause_reason = "None"]

\* --------------------------------------------- api/control_panel_api.py
\* pause_database, first commit
PauseDatabase(reason) ==
    /\ adminPc = "idle"
    /\ pause_incoming_data(reason)
    /\ adminPc' = "pause_matchmakers"
    /\ adminArg' = reason
    /\ out' = NoOut
    /\ UNCHANGED <<rows, nextId, pc, req, loc>>
    /\ UNCHANGED otherVars

\* a global pause that would not reach the matchmakers flag
PauseDatabaseWithoutCascade ==
    /\ adminPc = "pause_matchmakers"
    /\ adminPc' = "idle"
    /\ adminArg' = "-"
    /\ out' = NoOut
    /\ UNCHANGED <<rows, nextId, status, pc, req, loc>>
    /\ UNCHANGED otherVars

\* pause_database, second commit
PauseDatabaseMatchmakers ==
    /\ adminPc = "pause_matchmakers"
    /\ pause_matchmakers_data(adminArg)
    /\ adminPc' = "idle"
    /\ adminArg' = "-"
    /\ out' = NoOut
    /\ UNCHANGED <<rows, nextId, pc, req, loc>>
    /\ UNCHANGED otherVars

\* resume_database, first commit
ResumeDatabase ==
    /\ adminPc = "idle"
    /\ resume_incoming_data
    /\ adminPc' = "resume_matchmakers"
    /\ out' = NoOut
    /\ UNCHANGED <<rows, nextId, pc, req, loc, adminArg>>
    /\ UNCHANGED otherVars

\* resume_database, second commit
ResumeDatabaseMatchmakers ==
    /\ adminPc = "resume_matchmakers"
    /\ resume_matchmakers_data
    /\ adminPc' = "idle"
    /\ out' = NoOut
    /\ UNCHANGED <<rows, nextId, pc, req, loc, adminArg>>
    /\ UNCHANGED otherVars

\* pause_matchmakers
PauseMatchmakers(reason) ==
    /\ adminPc = "idle"
    /\ pause_matchmakers_data(reason)
    /\ out' = NoOut
    /\ UNCHANGED <<rows, nextId, pc, req, loc, adminPc, adminArg>>
    /\ UNCHANGED otherVars

\* resume_matchmakers
ResumeMatchmakers ==
    /\ adminPc = "idle"
    /\ resume_matchmakers_data
    /\ out' = NoOut
    /\ UNCHANGED <<rows, nextId, pc, req, loc, adminPc, adminArg>>
    /\ UNCHANGED otherVars

\* ------------------------------------------------- model/pii_quiz.py
\* Strings are sequences of characters, so that lower() and the substring
\* test are computed and not assumed.
UpperCase == <<"A", "B", "C", "D", "E", "F", "G", "H", "I", "J", "K", "L", "M",
               "N", "O", "P", "Q", "R", "S", "T", "U", "V", "W", "X", "Y", "Z">>
LowerCase == <<"a", "b", "c", "d", "e", "f", "g", "h", "i", "j", "k", "l", "m",
               "n", "o", "p", "q", "r", "s", "t", "u", "v", "w", "x", "y", "z">>

\* a comparison that would keep the question's case
KeepCase(s) == s

\* str.lower()
lower(s) ==
    [i \in 1..Len(s) |->
        IF \E n \in 1..Len(UpperCase) : UpperCase[n] = s[i]
        THEN LowerCase[CHOOSE n \in 1..Len(UpperCase) : UpperCase[n] = s[i]]
        ELSE s[i]]

\* keyword in question_lower
Contains(s, keyword) ==
    \E i \in 1..(Len(s) - Len(keyword) + 1) :
        SubSeq(s, i, i + Len(keyword) - 1) = keyword

\* pii_keywords = ['full name', 'ssn', 'where do you live', 'address', 'ip']
pii_keywords ==
    << <<"f", "u", "l", "l", " ", "n", "a", "m", "e">>,
       <<"s", "s", "n">>,
       <<"w", "h", "e", "r", "e", " ", "d", "o", " ", "y", "o", "u", " ", "l", "i", "v", "e">>,
       <<"a", "d", "d", "r", "e", "s", "s">>,
       <<"i", "p">> >>

\* JSON values that are not strings or arrays of entries are tagged by a
\* one-element sequence holding a word, which no string (a sequence of
\* single characters) and no array of entries equals.
\* an entry whose question is null
Null == <<"null">>
\* an entry that has no question key
NoQuestion == <<"no question">>
\* an entry that is not an object (a string, a number, an array)
NotAnObject == <<"not an object">>
\* a profile_data that is not an array (an object, a string, a number)
NotAList == << [question |-> <<"not a list">>, response |-> "-"] >>

\* resp.get('question', '')
get_question(resp) ==
    IF resp.question = NoQuestion THEN << >> ELSE resp.question

\* (resp.get('question', '')).lower() raises AttributeError: resp has no
\* get() when it is not an object, and None has no lower()
EntryRaises(resp) == resp.question \in {NotAnObject, Null}

\* is_pii = any(keyword in question_lower for keyword in pii_keywords)
is_pii(resp) ==
    LET question_lower == lower(get_question(resp)) IN
    \E n \in 1..Len(pii_keywords) : Contains(question_lower, pii_keywords[n])

\* a loop that would stop one entry early
FilterLoopShort(data, i, acc) ==
    SelectSeq(SubSeq(data, 1, Len(data) - 1), LAMBDA e : ~is_pii(e))

\* the for loop of filter_safe_data over profile_data[i..]
RECURSIVE FilterLoop(_, _, _)
FilterLoop(data, i, acc) ==
    IF i > Len(data) THEN acc
    ELSE FilterLoop(data, i + 1, IF is_pii(data[i]) THEN acc ELSE Append(acc, data[i]))

\* ProfileQuiz.filter_safe_data(profile_data)
filter_safe_data(data) ==
    IF data = << >> \/ data = NotAList THEN << >> ELSE FilterLoop(data, 1, << >>)

\* the call raises instead of returning: the loop reaches an entry on which
\* the question cannot be read
FilterRaises(data) ==
    /\ data # << >>
    /\ data # NotAList
    /\ \E i \in 1..Len(data) : EntryRaises(data[i])

\* filter_safe_data(data), ending at label when it returns
CallFilter(data, label) ==
    /\ IF FilterRaises(data)
       THEN /\ filterPc' = "raised"
            /\ UNCHANGED safe_responses
       ELSE /\ filterPc' = label
            /\ safe_responses' = filter_safe_data(data)
    /\ UNCHANGED profile_data
    /\ UNCHANGED notFilter

\* a call of filter_safe_data
ApplyFilter ==
    /\ filterPc = "call"
    /\ CallFilter(profile_data, "done")

\* a call of filter_safe_data on what the first call returned
Refilter ==
    /\ filterPc = "done"
    /\ CallFilter(safe_responses, "twice")

\* the callers of the control panel: not logged in, logged in with the
\* role User, logged in with the role Admin
Callers == {"anonymous", "User", "Admin"}
GateRoutes == {"pause", "resume", "pause-matchmakers", "resume-matchmakers"}

GateReq(route) == [NoReq EXCEPT !.op = route]

\* @login_required lets the caller through
login_required(caller) == caller # "anonymous"

\* a role check that would let every logged-in caller through
AnyRoleRequired(caller) == caller # "anonymous"

\* @admin_required lets the caller through
admin_required(caller) ==
    ~(caller = "anonymous" \/ caller # "Admin")

\* the first commit of the route's handler
GateHandler(route, reason) ==
    CASE route = "pause" -> PauseDatabase(reason)
      [] route = "resume" -> ResumeDatabase
      [] route = "pause-matchmakers" -> PauseMatchmakers(reason)
      [] route = "resume-matchmakers" -> ResumeMatchmakers

\* a POST to /database-status/<route>: the decorators, then the handler
GateCall(route, caller, reason) ==
    LET Refuse(rsp) ==
            /\ out' = Answer(GateReq(route), rsp)
            /\ UNCHANGED <<rows, nextId, status, pc, req, loc, adminPc, adminArg>>
            /\ UNCHANGED otherVars IN
    IF ~login_required(caller)
    THEN Refuse(Resp(401, "Unauthorized", EmptyDoc, "-"))
    ELSE IF ~admin_required(caller)
    THEN Refuse(Resp(403, "Admin access required", EmptyDoc, "-"))
    ELSE GateHandler(route, reason)

\* A handler of a gate route whose first statement raises (request.get_json()
\* returns None, or the commit fails): except Exception answers 500
GateCallFails(route) ==
    /\ adminPc = "idle"
    /\ out' = Answer(GateReq(route), Resp(500, "error", EmptyDoc, "-"))
    /\ UNCHANGED <<rows, nextId, status, pc, req, loc, adminPc, adminArg>>
    /\ UNCHANGED otherVars

\* pause_database: DatabaseStatus.pause_matchmakers_data(reason) raises after
\* pause_incoming_data has committed; except Exception answers 500
PauseDatabaseFails ==
    /\ adminPc = "pause_matchmakers"
    /\ adminPc' = "idle"
    /\ adminArg' = "-"
    /\ out' = Answer(GateReq("pause"), Resp(500, "error", EmptyDoc, "-"))
    /\ UNCHANGED <<rows, nextId, status, pc, req, loc>>
    /\ UNCHANGED otherVars

\* resume_database: DatabaseStatus.resume_matchmakers_data() raises after
\* resume_incoming_data has committed; except Exception answers 500
ResumeDatabaseFails ==
    /\ adminPc = "resume_matchmakers"
    /\ adminPc' = "idle"
    /\ out' = Answer(GateReq("resume"), Resp(500, "error", EmptyDoc, "-"))
    /\ UNCHANGED <<rows, nextId, status, pc, req, loc, adminArg>>
    /\ UNCHANGED otherVars

\* ----------------------------------------------- model/matchmaking.py
Uids == {"alice", "bob", "carol"}
LProcs == {"w1", "w2"}

\* The file: whether it exists, whether its bytes parse as JSON, the list
\* they encode when they do, and its size counted in records (every record
\* of this model encodes to the same number of bytes).
NoFile == [exists |-> FALSE, valid |-> FALSE, setups |-> << >>, len |-> 0]
\* open(setups_file, 'w'): the file exists and is empty
Truncated == [exists |-> TRUE, valid |-> FALSE, setups |-> << >>, len |-> 0]

\* _read_profile_setups(): [] when the file is missing or json.load fails
read_profile_setups ==
    IF ~file.exists THEN << >>
    ELSE IF file.valid THEN file.setups ELSE << >>

\* fcntl.flock(f, LOCK_SH) returns: no writer holds the exclusive lock
CanRead == file.exists => flock = "none"

\* any(setup['uid'] == uid for setup in setups)
HasUid(setups, uid) == \E i \in 1..Len(setups) : setups[i].uid = uid

\* the bytes of data written at offset 0 of a file opened with 'w': they
\* replace the file's content when they cover it, and leave a tail of the
\* longer content behind when they do not
Overlay(f, data) ==
    IF f.len <= Len(data)
    THEN [exists |-> TRUE, valid |-> TRUE, setups |-> data, len |-> Len(data)]
    ELSE [exists |-> TRUE, valid |-> FALSE, setups |-> << >>, len |-> f.len]

LResult(op, uid, found, setups) ==
    [op |-> op, uid |-> uid, found |-> found, setups |-> setups]
NoLOut == LResult("none", "-", FALSE, << >>)

\* a create that would not look for the uid among the setups it read
CreateProfileSetupUnchecked(p, uid) ==
    /\ lpc[p] = "idle"
    /\ CanRead
    /\ LET setups == read_profile_setups IN
       /\ lout' = NoLOut
       /\ lpc' = [lpc EXCEPT ![p] = "open"]
       /\ ldata' = [ldata EXCEPT ![p] =
                       Append(setups, [id |-> Len(setups) + 1, uid |-> uid])]
    /\ UNCHANGED <<file, flock, lbuf, lcreated>>
    /\ UNCHANGED notLegacy

\* create_profile_setup(uid) up to the call of _write_profile_setups
CreateProfileSetup(p, uid) ==
    /\ lpc[p] = "idle"
    /\ CanRead
    /\ LET setups == read_profile_setups IN
       IF HasUid(setups, uid)
       THEN /\ lout' = LResult("create", uid, FALSE, << >>)
            /\ UNCHANGED <<lpc, ldata>>
       ELSE /\ lout' = NoLOut
            /\ lpc' = [lpc EXCEPT ![p] = "open"]
            /\ ldata' = [ldata EXCEPT ![p] =
                            Append(setups, [id |-> Len(setups) + 1, uid |-> uid])]
    /\ UNCHANGED <<file, flock, lbuf, lcreated>>
    /\ UNCHANGED notLegacy

\* _write_profile_setups: open(setups_file, 'w')
WriteOpen(p) ==
    /\ lpc[p] = "open"
    /\ file' = Truncated
    /\ lpc' = [lpc EXCEPT ![p] = "lock"]
    /\ lout' = NoLOut
    /\ UNCHANGED <<flock, ldata, lbuf, lcreated>>
    /\ UNCHANGED notLegacy

\* _write_profile_setups: fcntl.flock(f, fcntl.LOCK_EX)
WriteLock(p) ==
    /\ lpc[p] = "lock"
    /\ flock = "none"
    /\ flock' = p
    /\ lpc' = [lpc EXCEPT ![p] = "dump"]
    /\ lout' = NoLOut
    /\ UNCHANGED <<file, ldata, lbuf, lcreated>>
    /\ UNCHANGED notLegacy

\* _write_profile_setups: json.dump(data, f) and LOCK_UN.  The text goes to
\* the file object's buffer, which reaches the file either now or when the
\* with block closes the file.
WriteDump(p) ==
    /\ lpc[p] = "dump"
    /\ \E flushed \in BOOLEAN :
          /\ file' = (IF flushed THEN Overlay(file, ldata[p]) ELSE file)
          /\ lbuf' = [lbuf EXCEPT ![p] = ~flushed]
    /\ flock' = "none"
    /\ lpc' = [lpc EXCEPT ![p] = "close"]
    /\ lout' = NoLOut
    /\ UNCHANGED <<ldata, lcreated>>
    /\ UNCHANGED notLegacy

\* _write_profile_setups: the with block closes the file;
\* create_profile_setup returns new_setup
WriteClose(p) ==
    /\ lpc[p] = "close"
    /\ file' = (IF lbuf[p] THEN Overlay(file, ldata[p]) ELSE file)
    /\ lbuf' = [lbuf EXCEPT ![p] = FALSE]
    /\ lpc' = [lpc EXCEPT ![p] = "idle"]
    /\ LET new_setup == ldata[p][Len(ldata[p])] IN
       /\ lcreated' = lcreated \cup {new_setup.uid}
       /\ lout' = LResult("create", new_setup.uid, TRUE, <<new_setup>>)
    /\ ldata' = [ldata EXCEPT ![p] = << >>]
    /\ UNCHANGED flock
    /\ UNCHANGED notLegacy

\* profile_setup_exists(uid)
profile_setup_exists(uid) ==
    /\ CanRead
    /\ lout' = LResult("exists", uid, HasUid(read_profile_setups, uid), << >>)
    /\ UNCHANGED <<file, flock, lpc, ldata, lbuf, lcreated>>
    /\ UNCHANGED notLegacy

\* get_profile_setup(uid)
get_profile_setup(uid) ==
    /\ CanRead
    /\ LET setups == read_profile_setups IN
       lout' = LResult("get", uid, HasUid(setups, uid),
                       SelectSeq(setups, LAMBDA s : s.uid = uid))
    /\ UNCHANGED <<file, flock, lpc, ldata, lbuf, lcreated>>
    /\ UNCHANGED notLegacy

\* a read that would write an empty list to a file it cannot load
GetAllRepairingFile ==
    /\ CanRead
    /\ lout' = LResult("all", "-", FALSE, read_profile_setups)
    /\ file' = (IF file.exists /\ file.valid THEN file ELSE Overlay(Truncated, << >>))
    /\ UNCHANGED <<flock, lpc, ldata, lbuf, lcreated>>
    /\ UNCHANGED notLegacy

\* get_all_profile_setups()
get_all_profile_setups ==
    /\ CanRead
    /\ lout' = LResult("all", "-", FALSE, read_profile_setups)
    /\ UNCHANGED <<file, flock, lpc, ldata, lbuf, lcreated>>
    /\ UNCHANGED notLegacy

\* the legacy store before its first call
LegacyIdle ==
    /\ file = NoFile
    /\ flock = "none"
    /\ lpc = [p \in LProcs |-> "idle"]
    /\ ldata = [p \in LProcs |-> << >>]
    /\ lbuf = [p \in LProcs |-> FALSE]
    /\ lcreated = {}
    /\ lout = NoLOut

\* -------------------------- api/anthropic_api.py, api/groq_bio_api.py
\* PERSONALITY_TYPES, by type name, in the order of the dict
PERSONALITY_TYPES ==
    << <<"T", "h", "e", " ", "L", "e", "a", "d", "e", "r">>,
       <<"T", "h", "e", " ", "E", "m", "p", "a", "t", "h">>,
       <<"T", "h", "e", " ", "A", "n", "a", "l", "y", "s", "t">>,
       <<"T", "h", "e", " ", "A", "d", "v", "e", "n", "t", "u", "r", "e", "r">>,
       <<"T", "h", "e", " ", "C", "r", "e", "a", "t", "i", "v", "e">>,
       <<"T", "h", "e", " ", "P", "e", "a", "c", "e", "m", "a", "k", "e", "r">>,
       <<"T", "h", "e", " ", "G", "u", "a", "r", "d", "i", "a", "n">>,
       <<"T", "h", "e", " ", "V", "i", "s", "i", "o", "n", "a", "r", "y">> >>
\* PERSONALITY_TYPES["The Peacemaker"]
ThePeacemaker == PERSONALITY_TYPES[6]

Whitespace == {" ", "\n", "\t"}

\* str.strip()
RECURSIVE strip(_)
strip(s) ==
    IF s = << >> THEN s
    ELSE IF Head(s) \in Whitespace THEN strip(Tail(s))
    ELSE IF s[Len(s)] \in Whitespace THEN strip(SubSeq(s, 1, Len(s) - 1))
    ELSE s

\* a matching that would accept only the exact type name
ExactTypeOnly(classified_type) ==
    IF \E n \in 1..Len(PERSONALITY_TYPES) : PERSONALITY_TYPES[n] = classified_type
    THEN classified_type
    ELSE ThePeacemaker

\* analyze_personality: "Match to our fixed types"
MatchType(classified_type) ==
    IF \E n \in 1..Len(PERSONALITY_TYPES) : PERSONALITY_TYPES[n] = classified_type
    THEN classified_type
    ELSE LET fuzzy == {n \in 1..Len(PERSONALITY_TYPES) :
                          Contains(lower(classified_type), lower(PERSONALITY_TYPES[n]))} IN
         IF fuzzy # {}
         THEN PERSONALITY_TYPES[CHOOSE n \in fuzzy : \A k \in fuzzy : n <= k]
         ELSE ThePeacemaker

\* what the upstream service does with a call: it answers 200 with a usable
\* body, answers another status, answers a body that is not JSON or lacks
\* the expected fields, times out, or the call raises
UpstreamOutcomes == {"ok", "non200", "bad body", "timeout", "exception"}

\* a safety report
Report(is_safe, risk_score, severity, message) ==
    [is_safe |-> is_safe, risk_score |-> risk_score, severity |-> severity,
     message |-> message]
NoReport == Report(FALSE, 0, "-", "-")
\* the report of the JSONDecodeError branch
FallbackParse == Report(TRUE, 0, "safe", "No obvious safety issues detected")
\* the report of the except Exception branch
FallbackError == Report(TRUE, 0, "safe", "AI analysis unavailable, but basic check passed")
\* a report the upstream model wrote
DangerReport == Report(FALSE, 80, "danger", "phone number found")

\* the message content of a safety reply: a fence around it, and a body
\* that is the JSON of DangerReport or text that is not JSON
SafetyReplies == [fence : {"none", "json fence", "plain fence"}, body : {"report", "not json"}]

AResp(code, success, fallback, type_name, analysis) ==
    [status |-> code, success |-> success, fallback |-> fallback,
     type_name |-> type_name, analysis |-> analysis]
NoAResp == AResp(0, FALSE, FALSE, << >>, NoReport)

\* analyze_personality()
analyze_personality(r) ==
    IF ~r.has_input THEN AResp(400, FALSE, FALSE, << >>, NoReport)
    ELSE IF ~r.has_key THEN AResp(200, TRUE, FALSE, ThePeacemaker, NoReport)
    ELSE IF r.upstream \in {"timeout", "exception"}
    THEN AResp(200, TRUE, FALSE, ThePeacemaker, NoReport)
    ELSE IF r.upstream = "non200" THEN AResp(200, TRUE, FALSE, ThePeacemaker, NoReport)
    ELSE IF r.upstream = "bad body" THEN AResp(200, TRUE, FALSE, ThePeacemaker, NoReport)
    ELSE AResp(200, TRUE, FALSE, MatchType(strip(r.label)), NoReport)

\* a handler that would report the upstream error to its caller
AnalyzeBioSafetyStrict(r) ==
    IF ~r.has_input THEN AResp(400, FALSE, FALSE, << >>, NoReport)
    ELSE IF ~r.has_key \/ r.upstream # "ok"
    THEN AResp(500, FALSE, FALSE, << >>, NoReport)
    ELSE IF r.reply.body = "report"
    THEN AResp(200, TRUE, FALSE, << >>, DangerReport)
    ELSE AResp(200, TRUE, TRUE, << >>, FallbackParse)

\* analyze_bio_safety()
analyze_bio_safety(r) ==
    IF ~r.has_input THEN AResp(400, FALSE, FALSE, << >>, NoReport)
    ELSE IF ~r.has_key THEN AResp(200, TRUE, TRUE, << >>, FallbackError)
    ELSE IF r.upstream # "ok" THEN AResp(200, TRUE, TRUE, << >>, FallbackError)
    ELSE LET ai_response == r.reply.body IN
         IF ai_response = "report"
         THEN AResp(200, TRUE, FALSE, << >>, DangerReport)
         ELSE AResp(200, TRUE, TRUE, << >>, FallbackParse)

\* a request to one of the two adapter routes
Adapter ==
    /\ apc = "call"
    /\ aout' = (IF aReq.route = "personality"
                THEN analyze_personality(aReq)
                ELSE analyze_bio_safety(aReq))
    /\ apc' = "done"
    /\ UNCHANGED aReq
    /\ UNCHANGED notAdapter

NoAReq == [route |-> "none", has_input |-> FALSE, has_key |-> FALSE,
           upstream |-> "ok", label |-> << >>,
           reply |-> [fence |-> "none", body |-> "not json"]]

\* no adapter request
AdapterIdle ==
    /\ aReq = NoAReq
    /\ aout = NoAResp
    /\ apc = "done"

\* ------------------------------------- model/pii_quiz.py, api/pii.py
\* a POST /api/pii/profile of user u carrying profile_data
QuizReq(u, data) == [user |-> u, profile_data |-> data, rid |-> 0]
NoQReq == QuizReq(0, << >>)
QResp(code, u) == [status |-> code, user |-> u]
NoQOut == QResp(0, 0)

\* ProfileQuiz.get_by_user_id(user_id)
get_by_user_id(user_id) == {q \in quizzes : q.user_id = user_id}

\* _SAVE_PROFILE.post up to its first write
QuizPost(p, u, data) ==
    /\ qpc[p] = "idle"
    /\ IF data = << >> \/ data = NotAList
       THEN /\ qout' = QResp(400, u)
            /\ UNCHANGED <<qpc, qreq>>
       ELSE LET existing_quiz == get_by_user_id(u) IN
            /\ qout' = NoQOut
            /\ IF existing_quiz # {}
               THEN /\ qpc' = [qpc EXCEPT ![p] = "update"]
                    /\ qreq' = [qreq EXCEPT ![p] =
                                  [QuizReq(u, data) EXCEPT
                                      !.rid = (CHOOSE q \in existing_quiz : TRUE).id]]
               ELSE /\ qpc' = [qpc EXCEPT ![p] = "create"]
                    /\ qreq' = [qreq EXCEPT ![p] = QuizReq(u, data)]
    /\ UNCHANGED quizzes
    /\ UNCHANGED notQuiz

\* an insert into a table that would lack the unique constraint on user_id
QuizCreateUnconstrained(p) ==
    /\ qpc[p] = "create"
    /\ quizzes' = quizzes \cup
                    {[id |-> Cardinality(quizzes) + 1, user_id |-> qreq[p].user,
                      profile_data |-> qreq[p].profile_data]}
    /\ qout' = QResp(201, qreq[p].user)
    /\ qpc' = [qpc EXCEPT ![p] = "idle"]
    /\ qreq' = [qreq EXCEPT ![p] = NoQReq]
    /\ UNCHANGED notQuiz

\* new_quiz.create(): the INSERT succeeds, or violates unique(user_id) and
\* is rolled back, and the handler answers 201 or 409
QuizCreate(p) ==
    /\ qpc[p] = "create"
    /\ IF get_by_user_id(qreq[p].user) # {}
       THEN /\ UNCHANGED quizzes
            /\ qout' = QResp(409, qreq[p].user)
       ELSE /\ quizzes' = quizzes \cup
                            {[id |-> Cardinality(quizzes) + 1, user_id |-> qreq[p].user,
                              profile_data |-> qreq[p].profile_data]}
            /\ qout' = QResp(201, qreq[p].user)
    /\ qpc' = [qpc EXCEPT ![p] = "idle"]
    /\ qreq' = [qreq EXCEPT ![p] = NoQReq]
    /\ UNCHANGED notQuiz

\* existing_quiz.update(profile_data)
QuizUpdate(p) ==
    /\ qpc[p] = "update"
    /\ quizzes' = {IF q.id = qreq[p].rid
                   THEN [q EXCEPT !.profile_data = qreq[p].profile_data]
                   ELSE q : q \in quizzes}
    /\ qout' = QResp(200, qreq[p].user)
    /\ qpc' = [qpc EXCEPT ![p] = "idle"]
    /\ qreq' = [qreq EXCEPT ![p] = NoQReq]
    /\ UNCHANGED notQuiz

\* the quiz table before its first request
QuizIdle ==
    /\ quizzes = {}
    /\ qpc = [p \in Procs |-> "idle"]
    /\ qreq = [p \in Procs |-> NoQReq]
    /\ qout = NoQOut

\* ------------------------ api/pii.py: the views with PII filtered out
Stores == {"one", "two"}
\* the profile_quizzes table of a store
Table(s) == IF s = "one" THEN quizzes ELSE twin

VResp(code, profiles) == [status |-> code, profiles |-> profiles]
NoView == [route |-> "none", resp |-> VResp(0, {})]

\* a view that would hand out the stored answers as they are
UnfilteredView(q) ==
    [user_id |-> q.user_id, profile_data |-> q.profile_data]

\* quiz.read() with profile_data replaced by filter_safe_data(profile_data)
SafeView(q) ==
    [user_id |-> q.user_id, profile_data |-> filter_safe_data(q.profile_data)]

\* _ALL_PROFILES.get: every quiz filtered; an exception in the loop is
\* answered 500
all_profiles(table) ==
    IF \E q \in table : FilterRaises(q.profile_data)
    THEN VResp(500, {})
    ELSE VResp(200, {SafeView(q) : q \in table})

\* _SAFE_PROFILE.get of the user: ProfileQuiz.get_safe_profile(user_id)
safe_profile(table, user_id) ==
    LET profile_quiz == {q \in table : q.user_id = user_id} IN
    IF profile_quiz = {} THEN VResp(404, {})
    ELSE IF \E q \in profile_quiz : FilterRaises(q.profile_data)
    THEN VResp(500, {})
    ELSE VResp(200, {SafeView(q) : q \in profile_quiz})

\* GET /api/pii/all-profiles on store s
GetAllProfiles(s) ==
    /\ view[s] = NoView
    /\ view' = [view EXCEPT ![s] =
                    [route |-> "all-profiles", resp |-> all_profiles(Table(s))]]
    /\ UNCHANGED twin
    /\ UNCHANGED notView

\* GET /api/pii/safe-profile of user_id on store s
GetSafeProfile(s, user_id) ==
    /\ view[s] = NoView
    /\ view' = [view EXCEPT ![s] =
                    [route |-> "safe-profile", resp |-> safe_profile(Table(s), user_id)]]
    /\ UNCHANGED twin
    /\ UNCHANGED notView

\* no second store, no view requested
ViewIdle ==
    /\ twin = {}
    /\ view = [s \in Stores |-> NoView]

\* ------------------------- model/database_audit.py: the status rows
\* what get_or_create is called for: the gate check of a gated handler or
\* a status read, pause_incoming_data, resume_incoming_data
StatusOps == {"read", "pause", "resume"}

\* DatabaseStatus.query.first(): the table is scanned in primary-key order
FirstStatus == CHOOSE r \in dsRows : \A o \in dsRows : r.id <= o.id

\* DatabaseStatus.get_or_create(), the query: status = query.first()
GetOrCreate(p, op) ==
    /\ dsPc[p] = "idle"
    /\ dsOp' = [dsOp EXCEPT ![p] = op]
    /\ IF dsRows # {}
       THEN /\ dsRow' = [dsRow EXCEPT ![p] = FirstStatus.id]
            /\ dsPc' = [dsPc EXCEPT ![p] = "act"]
       ELSE /\ dsPc' = [dsPc EXCEPT ![p] = "insert"]
            /\ UNCHANGED dsRow
    /\ UNCHANGED <<dsRows, dsNext>>
    /\ UNCHANGED notStatus

\* DatabaseStatus.get_or_create(), if not status: add and commit
InsertStatus(p) ==
    /\ dsPc[p] = "insert"
    /\ dsRows' = dsRows \cup {[id |-> dsNext, is_paused |-> FALSE]}
    /\ dsNext' = dsNext + 1
    /\ dsRow' = [dsRow EXCEPT ![p] = dsNext]
    /\ dsPc' = [dsPc EXCEPT ![p] = "act"]
    /\ UNCHANGED dsOp
    /\ UNCHANGED notStatus

\* what the caller does with the row it got: pause_incoming_data and
\* resume_incoming_data set is_paused on it and commit, a read returns
UseStatus(p) ==
    /\ dsPc[p] = "act"
    /\ dsRows' = (CASE dsOp[p] = "pause" ->
                        {IF r.id = dsRow[p] THEN [r EXCEPT !.is_paused = TRUE] ELSE r : r \in dsRows}
                    [] dsOp[p] = "resume" ->
                        {IF r.id = dsRow[p] THEN [r EXCEPT !.is_paused = FALSE] ELSE r : r \in dsRows}
                    [] dsOp[p] = "read" -> dsRows)
    /\ dsPc' = [dsPc EXCEPT ![p] = "idle"]
    /\ dsOp' = [dsOp EXCEPT ![p] = "none"]
    /\ dsRow' = [dsRow EXCEPT ![p] = 0]
    /\ UNCHANGED dsNext
    /\ UNCHANGED notStatus

\* no caller of get_or_create
StatusCallersIdle ==
    /\ dsPc = [p \in Procs |-> "idle"]
    /\ dsOp = [p \in Procs |-> "none"]
    /\ dsRow = [p \in Procs |-> 0]

\* the table as db.create_all() leaves it
StatusIdle ==
    /\ dsRows = {}
    /\ dsNext = 1
    /\ StatusCallersIdle
\* -------------------------------------------------------- specification
Init ==
    /\ rows = {}
    /\ nextId = 1
    /\ status = [is_paused |-> FALSE, pause_reason |-> "None",
                 is_matchmakers_paused |-> FALSE, matchmakers_pause_reason |-> "None"]
    /\ pc = [p \in Procs |-> "idle"]
    /\ req = [p \in Procs |-> NoReq]
    /\ loc = [p \in Procs |-> NoLoc]
    /\ out = NoOut
    /\ adminPc = "idle"
    /\ adminArg = "-"
    /\ profile_data = << >>
    /\ safe_responses = << >>
    /\ filterPc = "done"
    /\ LegacyIdle
    /\ AdapterIdle
    /\ QuizIdle
    /\ StatusIdle
    /\ ViewIdle

\* The requests of the clients in P, drawn from R, in any interleaving of
\* their database statements.
ClientNext(P, R) ==
    \E p \in P :
        \/ \E r \in R : Call(p, r)
        \/ Create(p)
        \/ Refresh(p)
        \/ Update(p)

\* calls of /matchmakers/create: <<role, user_id, section, data, has data>>
AdminCreateCalls ==
    {<<"Admin", u, s, d, TRUE>> : u \in Users, s \in ReqSections, d \in WriteDocs}
    \cup {<<"User", 1, "profile", EmptyDoc, TRUE>>,
          <<"Admin", 1, Missing, EmptyDoc, TRUE>>,
          <<"Admin", 1, "profile", EmptyDoc, FALSE>>,
          <<"Admin", NoSuchUser, "profile", EmptyDoc, TRUE>>}

AdminCreateNext ==
    \E c \in AdminCreateCalls : AdminCreate(c[1], c[2], c[3], c[4], c[5])

\* The store with the gate open and no concurrency: one client sending one
\* request after another, and the admin creating records between them.
Next ==
    \/ ClientNext({"p1"}, Requests)
    \/ (\A p \in Procs : pc[p] = "idle") /\ AdminCreateNext

Spec == Init /\ [][Next]_vars

\* The gate: one client writing the profile of user 1 while the admin
\* pauses and resumes.
GateRequests ==
    {WriteReq(1, "profile", d, TRUE) : d \in WriteDocs}
    \cup {SetupReq(1), DelReq(1, "k1")}
    \cup {AddReq(1, "k1", v) : v \in Vals}

GateNext ==
    \/ ClientNext({"p1"}, GateRequests)
    \/ \E route \in GateRoutes, caller \in Callers, reason \in Reasons :
          GateCall(route, caller, reason)
    \/ PauseDatabaseMatchmakers
    \/ ResumeDatabaseMatchmakers

GateSpec == Init /\ [][GateNext]_vars

\* The gate with statements that raise: the routes of GateNext, and each
\* handler failing at its first or at its second statement.
FaultNext ==
    \/ GateNext
    \/ \E route \in GateRoutes : GateCallFails(route)
    \/ PauseDatabaseFails
    \/ ResumeDatabaseFails

FaultSpec == Init /\ [][FaultNext]_vars

\* Two clients adding fields to the profile of the same user concurrently.
RaceRequests == {AddReq(1, k, v) : k \in Keys, v \in Vals}

RaceNext == ClientNext(Procs, RaceRequests)

RaceSpec == Init /\ [][RaceNext]_vars

\* The filter alone: filter_safe_data applied to each answer list of at
\* most MaxLen entries over these questions and responses.
\* Q_SSN: "What is your SSN?"
\* Q_COLOR: "Favorite color?"
\* Q_NAME: "Your Full Name"
\* Q_LIVE: "Where do you live?"
\* Q_ADDR: "Home ADDRESS"
\* Q_TRIP: "Describe a trip"
\* Q_FULLNAME: "Fullname"
\* Q_EMPTY: ""
Q_SSN == <<"W", "h", "a", "t", " ", "i", "s", " ", "y", "o", "u", "r", " ", "S", "S", "N", "?">>
Q_COLOR == <<"F", "a", "v", "o", "r", "i", "t", "e", " ", "c", "o", "l", "o", "r", "?">>
Q_NAME == <<"Y", "o", "u", "r", " ", "F", "u", "l", "l", " ", "N", "a", "m", "e">>
Q_LIVE == <<"W", "h", "e", "r", "e", " ", "d", "o", " ", "y", "o", "u", " ", "l", "i", "v", "e", "?">>
Q_ADDR == <<"H", "o", "m", "e", " ", "A", "D", "D", "R", "E", "S", "S">>
Q_TRIP == <<"D", "e", "s", "c", "r", "i", "b", "e", " ", "a", " ", "t", "r", "i", "p">>
Q_FULLNAME == <<"F", "u", "l", "l", "n", "a", "m", "e">>
Q_EMPTY == << >>
Questions == {Q_SSN, Q_COLOR, Q_NAME, Q_LIVE, Q_ADDR, Q_TRIP, Q_FULLNAME, Q_EMPTY}
Responses == {"123", "blue"}
Entries == [question : Questions, response : Responses]

RECURSIVE SeqsUpTo(_, _)
SeqsUpTo(S, n) ==
    IF n = 0 THEN {<< >>}
    ELSE LET shorter == SeqsUpTo(S, n - 1) IN
         shorter \cup {Append(s, e) : s \in {x \in shorter : Len(x) = n - 1}, e \in S}

FilterInit ==
    /\ rows = {}
    /\ nextId = 1
    /\ status = [is_paused |-> FALSE, pause_reason |-> "None",
                 is_matchmakers_paused |-> FALSE, matchmakers_pause_reason |-> "None"]
    /\ pc = [p \in Procs |-> "idle"]
    /\ req = [p \in Procs |-> NoReq]
    /\ loc = [p \in Procs |-> NoLoc]
    /\ out = NoOut
    /\ adminPc = "idle"
    /\ adminArg = "-"
    /\ profile_data \in SeqsUpTo(Entries, MaxLen)
    /\ safe_responses = << >>
    /\ filterPc = "call"
    /\ LegacyIdle
    /\ AdapterIdle
    /\ QuizIdle
    /\ StatusIdle
    /\ ViewIdle

FilterNext == ApplyFilter \/ Refilter

FilterSpec == FilterInit /\ [][FilterNext]_vars

\* The legacy store: two callers creating setups while others read.
LegacyNext ==
    \/ \E p \in LProcs :
          \/ \E uid \in Uids : CreateProfileSetup(p, uid)
          \/ WriteOpen(p)
          \/ WriteLock(p)
          \/ WriteDump(p)
          \/ WriteClose(p)
    \/ \E uid \in Uids : profile_setup_exists(uid)
    \/ \E uid \in Uids : get_profile_setup(uid)
    \/ get_all_profile_setups

LegacySpec == Init /\ [][LegacyNext]_vars

\* The adapter alone: each request, with each thing upstream can do.
\* L_EXACT: "The Leader"
\* L_LAST: "The Visionary"
\* L_DEFAULT: "The Peacemaker"
\* L_LOWER: "the empath"
\* L_SENTENCE: "I am THE GUARDIAN!"
\* L_PADDED: " The Analyst\n"
\* L_BARE: "Leader"
\* L_EMPTY: ""
\* L_TWO: "The Creative or The Empath"
L_EXACT == <<"T", "h", "e", " ", "L", "e", "a", "d", "e", "r">>
L_LAST == <<"T", "h", "e", " ", "V", "i", "s", "i", "o", "n", "a", "r", "y">>
L_DEFAULT == <<"T", "h", "e", " ", "P", "e", "a", "c", "e", "m", "a", "k", "e", "r">>
L_LOWER == <<"t", "h", "e", " ", "e", "m", "p", "a", "t", "h">>
L_SENTENCE == <<"I", " ", "a", "m", " ", "T", "H", "E", " ", "G", "U", "A", "R", "D", "I", "A", "N", "!">>
L_PADDED == <<" ", "T", "h", "e", " ", "A", "n", "a", "l", "y", "s", "t", "\n">>
L_BARE == <<"L", "e", "a", "d", "e", "r">>
L_EMPTY == << >>
L_TWO == <<"T", "h", "e", " ", "C", "r", "e", "a", "t", "i", "v", "e", " ", "o", "r", " ", "T", "h", "e", " ", "E", "m", "p", "a", "t", "h">>
Labels == {L_EXACT, L_LAST, L_DEFAULT, L_LOWER, L_SENTENCE, L_PADDED, L_BARE, L_EMPTY, L_TWO}

AdapterRequests ==
    [route : {"personality"}, has_input : BOOLEAN, has_key : BOOLEAN,
     upstream : UpstreamOutcomes, label : Labels,
     reply : {[fence |-> "none", body |-> "not json"]}]
    \cup
    [route : {"safety"}, has_input : BOOLEAN, has_key : BOOLEAN,
     upstream : UpstreamOutcomes, label : {<< >>}, reply : SafetyReplies]

AdapterInit ==
    /\ rows = {}
    /\ nextId = 1
    /\ status = [is_paused |-> FALSE, pause_reason |-> "None",
                 is_matchmakers_paused |-> FALSE, matchmakers_pause_reason |-> "None"]
    /\ pc = [p \in Procs |-> "idle"]
    /\ req = [p \in Procs |-> NoReq]
    /\ loc = [p \in Procs |-> NoLoc]
    /\ out = NoOut
    /\ adminPc = "idle"
    /\ adminArg = "-"
    /\ profile_data = << >>
    /\ safe_responses = << >>
    /\ filterPc = "done"
    /\ LegacyIdle
    /\ QuizIdle
    /\ StatusIdle
    /\ ViewIdle
    /\ aReq \in AdapterRequests
    /\ aout = NoAResp
    /\ apc = "call"

AdapterNext == Adapter

AdapterSpec == AdapterInit /\ [][AdapterNext]_vars

\* The quiz table: two clients posting quiz answers concurrently.
QuizData ==
    {<< [question |-> Q_COLOR, response |-> "blue"] >>,
     << [question |-> Q_SSN, response |-> "123"],
        [question |-> Q_COLOR, response |-> "blue"] >>,
     << >>,
     NotAList}

QuizNext ==
    \E p \in Procs :
        \/ \E u \in Users, data \in QuizData : QuizPost(p, u, data)
        \/ QuizCreate(p)
        \/ QuizUpdate(p)

QuizSpec == Init /\ [][QuizNext]_vars

\* The filter on any JSON input: arrays of at most MaxLen entries, some of
\* them without a question, with a null question or not objects, and an
\* input that is not an array.
AnyEntries ==
    {[question |-> Q_SSN, response |-> "123"],
     [question |-> Q_COLOR, response |-> "blue"],
     [question |-> Q_TRIP, response |-> "blue"],
     [question |-> NoQuestion, response |-> "blue"],
     [question |-> Null, response |-> "blue"],
     [question |-> NotAnObject, response |-> "123"]}

AnyInit ==
    /\ rows = {}
    /\ nextId = 1
    /\ status = [is_paused |-> FALSE, pause_reason |-> "None",
                 is_matchmakers_paused |-> FALSE, matchmakers_pause_reason |-> "None"]
    /\ pc = [p \in Procs |-> "idle"]
    /\ req = [p \in Procs |-> NoReq]
    /\ loc = [p \in Procs |-> NoLoc]
    /\ out = NoOut
    /\ adminPc = "idle"
    /\ adminArg = "-"
    /\ profile_data \in SeqsUpTo(AnyEntries, MaxLen) \cup {NotAList}
    /\ safe_responses = << >>
    /\ filterPc = "call"
    /\ LegacyIdle
    /\ AdapterIdle
    /\ QuizIdle
    /\ StatusIdle
    /\ ViewIdle

AnySpec == AnyInit /\ [][FilterNext]_vars

\* Every route that writes the section store, with the matchmakers gate: one
\* client sending gated requests and POST save, the admin's record routes,
\* the deletion of a user, and the admin pausing and resuming.
AdminUpdateCalls ==
    {<<"Admin", id, [EmptyDoc EXCEPT !["k2"] = "v2"], TRUE>> : id \in 1..MaxId}
    \cup {<<"User", 1, EmptyDoc, TRUE>>, <<"Admin", 1, EmptyDoc, FALSE>>}

AdminDeleteCalls ==
    {<<"Admin", id>> : id \in 1..MaxId} \cup {<<"User", 1>>}

StoreCreateCalls ==
    {<<"Admin", 2, "basic", EmptyDoc, TRUE>>, <<"User", 1, "basic", EmptyDoc, TRUE>>}

\* no gated handler stands between two of its database statements
AllIdle == \A p \in Procs : pc[p] = "idle"

StoreNext ==
    \/ nextId <= MaxId /\ ClientNext({"p1"}, GateRequests)
    \/ nextId <= MaxId /\ AllIdle
          /\ \E u \in Users, pd \in SaveData \cup {Missing} : SaveProfile(u, pd)
    \/ nextId <= MaxId /\ AllIdle
          /\ \E c \in StoreCreateCalls : AdminCreate(c[1], c[2], c[3], c[4], c[5])
    \/ AllIdle /\ \E c \in AdminUpdateCalls : AdminUpdate(c[1], c[2], c[3], c[4])
    \/ AllIdle /\ \E c \in AdminDeleteCalls : AdminDelete(c[1], c[2])
    \/ AllIdle /\ \E u \in Users : DeleteUser(u)
    \/ \E reason \in Reasons : PauseMatchmakers(reason)
    \/ ResumeMatchmakers

StoreSpec == Init /\ [][StoreNext]_vars

\* The status rows: two requests calling get_or_create concurrently, on a
\* table that is empty (db.create_all() alone) or holds the row that
\* init_audit_tables inserted.
StatusInit ==
    /\ rows = {}
    /\ nextId = 1
    /\ status = [is_paused |-> FALSE, pause_reason |-> "None",
                 is_matchmakers_paused |-> FALSE, matchmakers_pause_reason |-> "None"]
    /\ pc = [p \in Procs |-> "idle"]
    /\ req = [p \in Procs |-> NoReq]
    /\ loc = [p \in Procs |-> NoLoc]
    /\ out = NoOut
    /\ adminPc = "idle"
    /\ adminArg = "-"
    /\ profile_data = << >>
    /\ safe_responses = << >>
    /\ filterPc = "done"
    /\ LegacyIdle
    /\ AdapterIdle
    /\ QuizIdle
    /\ ViewIdle
    /\ StatusCallersIdle
    /\ \/ dsRows = {} /\ dsNext = 1
       \/ dsRows = {[id |-> 1, is_paused |-> FALSE]} /\ dsNext = 2

StatusNext ==
    \E p \in Procs :
        \/ \E op \in StatusOps : GetOrCreate(p, op)
        \/ InsertStatus(p)
        \/ UseStatus(p)

StatusSpec == StatusInit /\ [][StatusNext]_vars

\* The views of two stores: in each, user 1 has stored a list of at most
\* MaxLen of these answers and user 2 the same fixed list; each store
\* answers one GET.
ViewEntries ==
    {[question |-> Q_SSN, response |-> "123"],
     [question |-> Q_NAME, response |-> "blue"],
     [question |-> Q_COLOR, response |-> "blue"],
     [question |-> Null, response |-> "blue"]}

\* what POST /api/pii/profile stores: a list that is not empty
StoredData == SeqsUpTo(ViewEntries, MaxLen) \ {<< >>}

QuizRow(id, user_id, data) == [id |-> id, user_id |-> user_id, profile_data |-> data]

OtherQuiz ==
    QuizRow(2, 2, << [question |-> Q_LIVE, response |-> "123"],
                     [question |-> Q_COLOR, response |-> "blue"] >>)

ViewInit ==
    /\ rows = {}
    /\ nextId = 1
    /\ status = [is_paused |-> FALSE, pause_reason |-> "None",
                 is_matchmakers_paused |-> FALSE, matchmakers_pause_reason |-> "None"]
    /\ pc = [p \in Procs |-> "idle"]
    /\ req = [p \in Procs |-> NoReq]
    /\ loc = [p \in Procs |-> NoLoc]
    /\ out = NoOut
    /\ adminPc = "idle"
    /\ adminArg = "-"
    /\ profile_data = << >>
    /\ safe_responses = << >>
    /\ filterPc = "done"
    /\ LegacyIdle
    /\ AdapterIdle
    /\ StatusIdle
    /\ qpc = [p \in Procs |-> "idle"]
    /\ qreq = [p \in Procs |-> NoQReq]
    /\ qout = NoQOut
    /\ \E a \in StoredData, b \in StoredData :
          /\ quizzes = {QuizRow(1, 1, a), OtherQuiz}
          /\ twin = {QuizRow(1, 1, b), OtherQuiz}
    /\ view = [s \in Stores |-> NoView]

ViewNext ==
    \E s \in Stores :
        \/ GetAllProfiles(s)
        \/ GetSafeProfile(s, 1)

ViewSpec == ViewInit /\ [][ViewNext]_vars

\* ----------------------------------------------------------------- claims
\* the user's profile records, as _ADD reads them
Profile(u) == get_user_matchmakers_data(u, "profile")

\* C1: in every reachable state there is at most one record for each
\* (user_id, section) pair.
C1_OneRecordPerUserSection ==
    \A r1 \in rows, r2 \in rows :
        (r1.user_id = r2.user_id /\ r1.section = r2.section) => r1.id = r2.id

C3_NoLostUpdate ==
    [][\A p \in Procs :
          (pc[p] = "update" /\ pc'[p] = "idle" /\ req[p].op = "add") =>
              \A k \in Keys \ {req[p].key} :
                  \A r \in rows : r.id = loc[p].rid =>
                      \E s \in rows' : s.id = r.id /\ s.data[k] = r.data[k]]_vars

\* C4: no record is written while the matchmakers gate is paused.
C4_NoWriteAfterPause ==
    [][rows' # rows => ~status.is_matchmakers_paused]_vars

\* C5: a create attempt with a section name outside PII_SECTIONS is
\* answered 400.
C5_InvalidSectionIs400 ==
    (/\ out.req.op \in {"write", "admin_create"}
     /\ out.req.section \notin PII_SECTIONS \cup {Missing, "-"}
     /\ out.resp.status \notin {403, 404})
        => out.resp.status = 400

\* C6: a create for a (user, section) that already has a record is answered
\* 409 Conflict and leaves the table unchanged.
C6_SecondCreateConflicts ==
    [][(/\ out'.req.op = "admin_create"
        /\ out'.resp.status \notin {400, 403, 404}
        /\ get_user_matchmakers_data(out'.req.user, out'.req.section) # {})
           => (out'.resp.status = 409 /\ rows' = rows)]_vars

\* the requests of Requests that add or remove a field with a key
AddRequests == {r \in Requests : r.op = "add" /\ r.key # Missing /\ r.val # Missing}
DelRequests == {r \in Requests : r.op = "del" /\ r.key # Missing}

\* C7: an upsert of (k, v) for user U run without concurrency: when U has no
\* profile record the handler first inserts one with data {}; its commit
\* sets data[k] = v in U's profile document, keeps every other key of it and
\* changes no other record.
C7_UpsertSetsOneKey ==
    [][/\ \A r \in AddRequests :
            Call("p1", r) =>
                /\ rows' = rows
                /\ pc'["p1"] = (IF Profile(r.user) = {} THEN "create" ELSE "update")
       /\ (pc["p1"] = "create" /\ req["p1"].op = "add" /\ pc'["p1"] # "create") =>
            /\ Profile(req["p1"].user) = {}
            /\ \E n \in rows' \ rows :
                 /\ rows' = rows \cup {n}
                 /\ n.user_id = req["p1"].user
                 /\ n.section = "profile"
                 /\ n.data = EmptyDoc
       /\ (pc["p1"] = "update" /\ req["p1"].op = "add" /\ pc'["p1"] = "idle") =>
            LET rec == First(Profile(req["p1"].user)) IN
            /\ rows' = (rows \ {rec}) \cup
                         {[rec EXCEPT !.data = [rec.data EXCEPT ![req["p1"].key] = req["p1"].val]]}
            /\ out'.resp.status = 201]_vars

\* C7 witness: a second upsert has been answered 201 and the profile
\* document holds both keys, with different values.
C7_Witness ==
    /\ out.req.op = "add"
    /\ out.resp.status = 201
    /\ \E r \in Profile(out.req.user) :
         /\ r.data["k1"] # Absent
         /\ r.data["k2"] # Absent
         /\ r.data["k1"] # r.data["k2"]

\* C8: removing a field fails with 404 when the user has no profile record,
\* and with 404 carrying the current document when the key is absent from
\* it; either way the table is unchanged.
C8_RemoveFailsUnchanged ==
    [][\A r \in DelRequests :
          Call("p1", r) =>
              LET recs == Profile(r.user) IN
              /\ recs = {} =>
                    /\ out'.resp.status = 404
                    /\ out'.resp.msg = "No profile setup found"
                    /\ rows' = rows
              /\ (recs # {} /\ First(recs).data[r.key] = Absent) =>
                    /\ out'.resp.status = 404
                    /\ out'.resp.msg = "index not found"
                    /\ out'.resp.doc = First(recs).data
                    /\ rows' = rows]_vars

\* C8 witness: a removal was answered "index not found" with a document
\* that holds another key.
C8_Witness ==
    /\ out.req.op = "del"
    /\ out.resp.status = 404
    /\ out.resp.msg = "index not found"
    /\ out.resp.doc # EmptyDoc
    /\ \E r \in Profile(out.req.user) : r.data = out.resp.doc

\* C9: removing a key present in the profile document goes on to a commit
\* that removes exactly that key from the stored document, keeps the record
\* and every other record, and answers 200 with the removed value and the
\* remaining document.
C9_RemoveDeletesOneKey ==
    [][/\ \A r \in DelRequests :
            (Call("p1", r) /\ Profile(r.user) # {} /\ First(Profile(r.user)).data[r.key] # Absent) =>
                (pc'["p1"] = "update" /\ rows' = rows)
       /\ (pc["p1"] = "update" /\ req["p1"].op = "del" /\ pc'["p1"] = "idle") =>
            LET rec == First(Profile(req["p1"].user))
                k == req["p1"].key
                remaining == [rec.data EXCEPT ![k] = Absent] IN
            /\ rec.data[k] # Absent
            /\ rows' = (rows \ {rec}) \cup {[rec EXCEPT !.data = remaining]}
            /\ out'.resp.status = 200
            /\ out'.resp.val = rec.data[k]
            /\ out'.resp.doc = remaining]_vars

\* C9 witness: the last key was removed and the record is still stored, with
\* the empty document, beside another record.
C9_Witness ==
    /\ out.req.op = "del"
    /\ out.resp.status = 200
    /\ out.resp.val \in Vals
    /\ out.resp.doc = EmptyDoc
    /\ \E r \in Profile(out.req.user) : r.data = EmptyDoc
    /\ Cardinality(rows) = 2

\* the PII-indicator substrings the claim names
PIIIndicators == {<<"f", "u", "l", "l", " ", "n", "a", "m", "e">>, <<"s", "s", "n">>, <<"w", "h", "e", "r", "e", " ", "d", "o", " ", "y", "o", "u", " ", "l", "i", "v", "e">>, <<"a", "d", "d", "r", "e", "s", "s">>, <<"i", "p">>}

\* two characters that are the same up to letter case
SameLetter(a, b) ==
    a = b \/ \E n \in 1..Len(UpperCase) : {a, b} = {UpperCase[n], LowerCase[n]}

\* q contains kw at some offset, compared case-insensitively
ContainsCI(q, kw) ==
    \E off \in 0..(Len(q) - Len(kw)) :
        \A j \in 1..Len(kw) : SameLetter(q[off + j], kw[j])

NoIndicator(e) == \A kw \in PIIIndicators : ~ContainsCI(e.question, kw)

\* C10: filter_safe returns exactly the entries whose question contains no
\* PII-indicator substring, case-insensitively, in their original order.
C10_FilterIsSafeSubsequence ==
    filterPc = "done" => safe_responses = SelectSeq(profile_data, NoIndicator)

\* C10 witness: the list of the SSN question and the colour question was
\* filtered, and only the second entry came back.
C10_Witness ==
    /\ filterPc = "done"
    /\ profile_data = << [question |-> Q_SSN, response |-> "123"],
                         [question |-> Q_COLOR, response |-> "blue"] >>
    /\ safe_responses = << [question |-> Q_COLOR, response |-> "blue"] >>

\* C11: filter_safe is idempotent: filtering what a call returned returns it
\* unchanged.
C11_FilterIdempotent ==
    [][Refilter => (filterPc' = "twice" /\ safe_responses' = safe_responses)]_vars

\* C11 witness: a list of three entries was filtered down to a shorter,
\* non-empty list, and that list was filtered again.
C11_Witness ==
    /\ filterPc = "twice"
    /\ Len(profile_data) = 3
    /\ Len(safe_responses) \in {1, 2}

\* C12: filter_safe is total: every call returns a sequence, whatever the
\* input (empty, not a list, entries without a question, with a null
\* question, or that are not objects).
C12_FilterNeverFails == filterPc # "raised"

\* C13: once every create_profile_setup call has returned, the file parses
\* as JSON and holds a record for each uid a call returned a new record for.
C13_NoLostSetup ==
    (\A p \in LProcs : lpc[p] = "idle") =>
        (lcreated # {} =>
            /\ file.valid
            /\ \A uid \in lcreated : HasUid(file.setups, uid))

\* C14: a read of the legacy store on a missing file, or on a file that is
\* not valid JSON, returns the empty collection (False for
\* profile_setup_exists, None for get_profile_setup) and leaves the file as
\* it is.
C14_ReadsTolerateBadFile ==
    [][\A uid \in Uids :
          (/\ ~file.exists \/ ~file.valid
           /\ \/ profile_setup_exists(uid)
              \/ get_profile_setup(uid)
              \/ get_all_profile_setups) =>
              /\ ~lout'.found
              /\ lout'.setups = << >>
              /\ file' = file]_vars

\* C14 witness: a read returned the empty list from a file that exists and
\* does not parse, after a record had been created.
C14_Witness ==
    /\ lout.op = "all"
    /\ lout.setups = << >>
    /\ file.exists
    /\ ~file.valid
    /\ lcreated # {}

AdminGateStep ==
    \/ \E route \in GateRoutes, reason \in Reasons : GateCall(route, "Admin", reason)
    \/ PauseDatabaseMatchmakers
    \/ ResumeDatabaseMatchmakers

UpstreamFailed(r) ==
    \/ ~r.has_key
    \/ r.upstream # "ok"
    \/ r.route = "safety" /\ r.reply.body = "not json"

TypeNames == {PERSONALITY_TYPES[n] : n \in 1..Len(PERSONALITY_TYPES)}

\* C18: the type returned for a label is one of the eight types: the type
\* named exactly by the label if there is one, otherwise a type whose name
\* occurs in the label case-insensitively, otherwise The Peacemaker.
C18_LabelMapsToClosedSet ==
    (/\ apc = "done"
     /\ aReq.route = "personality"
     /\ aReq.has_input /\ aReq.has_key /\ aReq.upstream = "ok") =>
        LET label == aReq.label
            T == aout.type_name IN
        /\ aout.status = 200
        /\ Cardinality(TypeNames) = 8
        /\ T \in TypeNames
        /\ label \in TypeNames => T = label
        /\ (label \notin TypeNames /\ \E n \in TypeNames : ContainsCI(label, n)) =>
              ContainsCI(label, T)
        /\ (\A n \in TypeNames : ~ContainsCI(label, n)) => T = L_DEFAULT

\* C18 witness: the label "I am THE GUARDIAN!" was mapped to The Guardian.
C18_Witness ==
    /\ apc = "done"
    /\ aReq.route = "personality"
    /\ aReq.has_input /\ aReq.has_key /\ aReq.upstream = "ok"
    /\ aReq.label = L_SENTENCE
    /\ aout.type_name = <<"T", "h", "e", " ", "G", "u", "a", "r", "d", "i", "a", "n">>

\* C19: POST setup for a user who has no profile record goes on to insert
\* one with data {} and answers 201; for a user who has one it answers 409
\* and changes nothing.
C19_SetupCreatesProfile ==
    [][/\ \A u \in Users :
            Call("p1", SetupReq(u)) =>
                IF Profile(u) = {}
                THEN pc'["p1"] = "create"
                ELSE out'.resp.status = 409 /\ rows' = rows
       /\ (pc["p1"] = "create" /\ req["p1"].op = "setup" /\ pc'["p1"] = "idle") =>
            /\ out'.resp.status = 201
            /\ \E n \in rows' \ rows :
                 /\ rows' = rows \cup {n}
                 /\ n.user_id = req["p1"].user
                 /\ n.section = "profile"
                 /\ n.data = EmptyDoc]_vars

QuizUnique ==
    \A q1, q2 \in quizzes : q1.user_id = q2.user_id => q1 = q2

\* C20: there is at most one ProfileQuiz record per user_id in every
\* reachable state, and a create for a user who already has a record is
\* answered 409 and leaves the table unchanged.
C20_OneQuizPerUser ==
    /\ []QuizUnique
    /\ [][\A p \in Procs :
            (/\ qpc[p] = "create"
             /\ qpc'[p] = "idle"
             /\ get_by_user_id(qreq[p].user) # {}) =>
                (qout' = QResp(409, qreq[p].user) /\ quizzes' = quizzes)]_vars

\* C20 witness: a create was answered 409 while the other client's record
\* for that user is stored.
C20_Witness ==
    /\ qout.status = 409
    /\ \E q \in quizzes : q.user_id = qout.user
    /\ QuizUnique

C22_FullWriteReplaces ==
    [][(/\ pc["p1"] \in {"update", "create"}
        /\ req["p1"].op = "write"
        /\ pc'["p1"] = "idle") =>
           LET r == req["p1"]
               after == {x \in rows' : x.user_id = r.user /\ x.section = r.section} IN
           /\ after # {}
           /\ \A x \in after : x.data = r.data
           /\ \A x \in rows : (x.user_id # r.user \/ x.section # r.section) => x \in rows'
           /\ \A x \in rows : \E y \in rows' :
                 y.id = x.id /\ y.user_id = x.user_id /\ y.section = x.section
           /\ pc["p1"] = "update" => Cardinality(rows') = Cardinality(rows)]_vars

\* the same property in the states where no (user, section) has two records
C22_FullWriteReplacesUnique ==
    [][C1_OneRecordPerUserSection =>
        ((/\ pc["p1"] \in {"update", "create"}
          /\ req["p1"].op = "write"
          /\ pc'["p1"] = "idle") =>
           LET r == req["p1"]
               after == {x \in rows' : x.user_id = r.user /\ x.section = r.section} IN
           /\ after # {}
           /\ \A x \in after : x.data = r.data
           /\ \A x \in rows : (x.user_id # r.user \/ x.section # r.section) => x \in rows'
           /\ \A x \in rows : \E y \in rows' :
                 y.id = x.id /\ y.user_id = x.user_id /\ y.section = x.section
           /\ pc["p1"] = "update" => Cardinality(rows') = Cardinality(rows))]_vars

\* either flag of the gate is set
GatePaused == status.is_paused \/ status.is_matchmakers_paused

\* C23: the gate is queried before every mutating operation: POST save and
\* the admin record routes, run while the gate is paused, create, change
\* and delete no section record.
C23_EveryMutationGated ==
    [][(/\ GatePaused
        /\ \/ \E u \in Users, pd \in SaveData : SaveProfile(u, pd)
           \/ \E c \in StoreCreateCalls : AdminCreate(c[1], c[2], c[3], c[4], c[5])
           \/ \E c \in AdminUpdateCalls : AdminUpdate(c[1], c[2], c[3], c[4])
           \/ \E c \in AdminDeleteCalls : AdminDelete(c[1], c[2]))
          => rows' = rows]_vars

\* C24: while the global pause flag is set no section write gets past the
\* gate, whatever the matchmakers flag: a gated request arriving then, with
\* no pause or resume request in progress, is answered 403 and no handler
\* goes on to write.
C24_GlobalPauseBlocksWrites ==
    [][\A r \in GateRequests :
          (status.is_paused /\ adminPc = "idle" /\ Call("p1", r)) =>
              /\ out'.resp.status = 403
              /\ pc'["p1"] = "idle"
              /\ rows' = rows]_vars

\* C25: a read of the legacy store that runs while one write is under way
\* (the other caller idle, the writer having read every record created so
\* far) returns the content before that write or the complete content after
\* it, never a truncated or partly written file.
C25_ReadSeesBeforeOrAfter ==
    [][\A p \in LProcs :
          (/\ lpc[p] \in {"lock", "dump", "close"}
           /\ \A q \in LProcs \ {p} : lpc[q] = "idle"
           /\ \A uid \in lcreated : HasUid(ldata[p], uid)
           /\ get_all_profile_setups) =>
              lout'.setups \in {SubSeq(ldata[p], 1, Len(ldata[p]) - 1), ldata[p]}]_vars

\* C26: the gate state is a singleton: at most one DatabaseStatus row exists
\* in every reachable state, so every caller of get_or_create acts on the
\* same row.
C26_SingleStatusRow ==
    /\ Cardinality(dsRows) <= 1
    /\ \A p \in Procs, q \in Procs :
          (dsPc[p] = "act" /\ dsPc[q] = "act") => dsRow[p] = dsRow[q]

\* C26 where the row exists before the first request: it stays the only row
C26_SingleRowOnceCreated ==
    (dsRows # {}) => [](Cardinality(dsRows) <= 1)

\* C27: a section record, once created, is in every later state, with its
\* owner and section, unless an Admin deleted it by its id or its owning
\* user was deleted; no user-level operation (data-write, setup, add,
\* remove field, save) deletes a record.
C27_RecordsPersist ==
    [][/\ \A x \in rows :
            (\A y \in rows' : y.id # x.id) =>
                \/ AdminDelete("Admin", x.id)
                \/ DeleteUser(x.user_id)
       /\ \A x \in rows, y \in rows' :
            y.id = x.id => (y.user_id = x.user_id /\ y.section = x.section)
       /\ (\/ \E r \in GateRequests : Call("p1", r)
           \/ Create("p1") \/ Refresh("p1") \/ Update("p1")
           \/ \E u \in Users, pd \in SaveData \cup {Missing} : SaveProfile(u, pd)) =>
            \A x \in rows : \E y \in rows' : y.id = x.id]_vars

\* C27 witness: the user removed the last field of the profile document and
\* the record is still stored, empty, after an Admin had deleted another
\* record.
C27_Witness ==
    /\ out.req.op = "del"
    /\ out.resp.status = 200
    /\ \E x \in rows : x.user_id = out.req.user /\ x.section = "profile" /\ x.data = EmptyDoc
    /\ nextId > Cardinality(rows) + 1

\* C28: a pause or resume request answered 500 leaves the gate as it was
\* before the request: the step that answers 500 changes neither flag, and
\* no earlier statement of the same request has committed (the handler is
\* still at its first statement).
C28_ErrorLeavesGateUnchanged ==
    [][(out'.req.op \in GateRoutes /\ out'.resp.status = 500) =>
          /\ status' = status
          /\ adminPc = "idle"]_vars

\* at most one record per uid, and ids 1..n in file order
WellFormedSetups(setups) ==
    /\ \A i \in 1..Len(setups) : setups[i].id = i
    /\ \A i \in 1..Len(setups), j \in 1..Len(setups) :
          setups[i].uid = setups[j].uid => i = j

\* C29: under any interleaving of create_profile_setup calls from a missing
\* file, every content a read returns has at most one record per uid and
\* ids exactly 1..n in file order; a create for a uid that is in the file
\* returns None and leaves the file unchanged.
C29_SetupsWellFormed ==
    /\ [](/\ WellFormedSetups(read_profile_setups)
          /\ lout.op = "all" => WellFormedSetups(lout.setups))
    /\ [][\A p \in LProcs, uid \in Uids :
            (CreateProfileSetup(p, uid) /\ HasUid(read_profile_setups, uid)) =>
                /\ lout' = LResult("create", uid, FALSE, << >>)
                /\ file' = file
                /\ lpc'[p] = "idle"
                /\ ldata' = ldata]_vars

\* C29 witness: a create for a uid that is in a file of three records
\* returned None.
C29_Witness ==
    /\ lout.op = "create"
    /\ ~lout.found
    /\ file.valid
    /\ Len(file.setups) = 3
    /\ HasUid(file.setups, lout.uid)
    /\ WellFormedSetups(file.setups)

\* the stored answers whose question holds a PII indicator
PIIAnswers == {e \in ViewEntries \cup {OtherQuiz.profile_data[1], OtherQuiz.profile_data[2]} :
                  ~NoIndicator(e)}

\* the answers of a stored list whose question holds no PII indicator
PublicPart(data) == SelectSeq(data, LAMBDA e : e \notin PIIAnswers)

\* two stores that differ only in entries whose question holds a PII
\* indicator
DifferOnlyInPII ==
    /\ {q.user_id : q \in quizzes} = {q.user_id : q \in twin}
    /\ \A q1 \in quizzes, q2 \in twin :
          q1.user_id = q2.user_id =>
              PublicPart(q1.profile_data) = PublicPart(q2.profile_data)

\* C30: the public quiz views do not depend on PII answers: two stores that
\* differ only in entries whose question holds a PII indicator answer GET
\* all-profiles, and GET safe-profile, identically; no entry of a view has
\* a question holding a PII indicator; and answering leaves the stored
\* profile_data unchanged.
C30_ViewsIgnorePII ==
    /\ []((/\ view["one"].route # "none"
           /\ view["one"].route = view["two"].route
           /\ DifferOnlyInPII) =>
              view["one"].resp = view["two"].resp)
    /\ [](\A s \in Stores : \A v \in view[s].resp.profiles :
            \A i \in 1..Len(v.profile_data) : v.profile_data[i] \notin PIIAnswers)
    /\ [][view' # view => (quizzes' = quizzes /\ twin' = twin)]_vars

\* C30 witness: two stores whose lists for user 1 differ, both holding PII
\* answers, answered GET all-profiles with the same two profiles, user 1's
\* view holding two answers.
C30_Witness ==
    /\ view["one"].route = "all-profiles"
    /\ view["two"].route = "all-profiles"
    /\ view["one"].resp.status = 200
    /\ view["one"].resp = view["two"].resp
    /\ quizzes # twin
    /\ Cardinality(view["one"].resp.profiles) = 2
    /\ \E v \in view["one"].resp.profiles : v.user_id = 1 /\ Len(v.profile_data) = 2
    /\ DifferOnlyInPII
    /\ \A q \in quizzes \cup twin : PublicPart(q.profile_data) # q.profile_data

====
